---- MODULE Spec2Model ----
(***************************************************************************)
(* Wikimetron scoring pipeline (backend/wikimetron/metrics/pipeline.py)     *)
(* and the contract of the metric collectors it drives.                     *)
(*                                                                          *)
(* Numbers.  Python floats are modelled as exact fixed-point integers in    *)
(* hundredths: the collector score 0.25 is 25, 1.0 is 100, 2 is 200.  The   *)
(* executor's "* 100.0" is a real multiplication, so a matrix cell of       *)
(* 100.0 is 10000.  A float value is a record [k, v]: k = "num" with the    *)
(* fixed-point value v, k = "nan" for NaN, k = "str" for an object float()  *)
(* cannot convert.  Quotients (raw / sum of weights) are exact fractions    *)
(* [n, d].                                                                  *)
(*                                                                          *)
(* Projection.  Work items of different metrics write different inner       *)
(* dictionaries of results_accumulator (pipeline.py:399), so the collection *)
(* is followed one metric column at a time: Init draws the column `metric`  *)
(* from the 16 of metric_configs and the state holds the work items of that *)
(* column only.                                                             *)
(***************************************************************************)
EXTENDS Integers, Sequences, FiniteSets, TLC

VARIABLES
    pages,                \* the input list of compute_scores_for_api_multilang
    batch_size,           \* its batch_size argument
    env,                  \* behaviour of the remote wikis, per (lang, title)
    metric,               \* the metric column followed
    pc,                   \* position of the analysis
    page_infos,           \* prepare_pages_with_languages(pages)
    future_map,           \* submitted work items, in submission order
    fstate,               \* per work item: "running" | "finished" | "collected"
    fresult,              \* per work item: what the worker returned
    api_calls,            \* wiki requests made so far by the workers
    results_accumulator,  \* results_accumulator[metric]: unique_key -> cell
    final_results,        \* final_results[metric]: rows <<unique_key, cell>>
    metrics,              \* column `metric` of the DataFrame of compute_scores_multilang
    api_result,           \* the envelope compute_scores_for_api_multilang returns
    ex,                   \* one call of execute_single_metric_lang_batch (ExecSpec)
    sc                    \* one row of the scorer (ScoreSpec)

vars == <<pages, batch_size, env, metric, pc, page_infos, future_map, fstate,
          fresult, api_calls, results_accumulator, final_results, metrics,
          api_result, ex, sc>>

orchVars == <<pages, batch_size, env, metric, pc, page_infos, future_map, fstate,
              fresult, api_calls, results_accumulator, final_results, metrics,
              api_result>>

(***************************************************************************)
(* Bounds of the model.                                                     *)
(***************************************************************************)
MaxPages == 3      \* longest input list
MaxBatch == 3      \* largest batch_size
MaxBad == 1        \* most remote pages that fail or never answer

(***************************************************************************)
(* Generic helpers.                                                         *)
(***************************************************************************)
Range(s) == {s[i] : i \in 1..Len(s)}

SeqsUpTo(S, n) == UNION {[1..k -> S] : k \in 0..n}

Min2(a, b) == IF a <= b THEN a ELSE b

RECURSIVE SumOver(_, _)
SumOver(f, S) ==
    IF S = {} THEN 0
    ELSE LET x == CHOOSE y \in S : TRUE IN f[x] + SumOver(f, S \ {x})

Num(n) == [k |-> "num", v |-> n]
NaN == [k |-> "nan", v |-> 0]
NotANumber == [k |-> "str", v |-> 0]

Frac(n, d) == [n |-> n, d |-> d]
FracAdd(a, b) == Frac(a.n * b.d + b.n * a.d, a.d * b.d)
FracDivInt(a, m) == Frac(a.n, a.d * m)
FracLeq(a, b) == a.n * b.d <= b.n * a.d      \* denominators are positive

(***************************************************************************)
(* pipeline.py: weights and metric configuration.                           *)
(***************************************************************************)
HEAT_W ==
    ("Views spikes" :> 5) @@ ("Edits spikes" :> 4) @@
    ("Edits revert probability" :> 3) @@ ("Protection" :> 2) @@
    ("Discussion intensity" :> 1)

QUAL_W ==
    ("Suspicious sources" :> 10) @@ ("Featured article" :> 10) @@
    ("Citation gaps" :> 3) @@ ("Staleness" :> 2) @@
    ("Source concentration" :> 2) @@ ("Add/delete ratio" :> 1)

RISK_W ==
    ("Sockpuppets" :> 10) @@ ("Anonymity" :> 5) @@
    ("Contributors concentration" :> 3) @@ ("Sporadicity" :> 2) @@
    ("Contributor add/delete ratio" :> 1)

MAX_WORKERS == 16
DEFAULT_BATCH_SIZE == 2
DEFAULT_LANGUAGE == "fr"

metric_configs ==
    << "Views spikes", "Edits spikes", "Protection", "Citation gaps",
       "Add/delete ratio", "Staleness", "Featured article",
       "Contributor add/delete ratio", "Contributors concentration",
       "Sporadicity", "Source concentration", "Discussion intensity",
       "Anonymity", "Suspicious sources", "Edits revert probability",
       "Sockpuppets" >>

Metrics == Range(metric_configs)

(***************************************************************************)
(* Inputs.  An input string is given with what str.startswith and urlparse  *)
(* see in it: `http` (it starts with "http"), `netloc` (the host, split on  *)
(* "."), `path` (the path, split on "/wiki/"), `invalid` (urlparse raises   *)
(* ValueError on it).                                                       *)
(***************************************************************************)
BareInput(t) ==
    [text |-> t, http |-> FALSE, invalid |-> FALSE, netloc |-> <<>>, path |-> <<>>]

Url(text, netloc, path) ==
    [text |-> text, http |-> TRUE, invalid |-> FALSE, netloc |-> netloc, path |-> path]

WikiUrl(lang, raw) ==
    Url("https://" \o lang \o ".wikipedia.org/wiki/" \o raw,
        <<lang, "wikipedia", "org">>, <<"", raw>>)

InvalidUrl(text) ==
    [text |-> text, http |-> TRUE, invalid |-> TRUE, netloc |-> <<>>, path |-> <<>>]

InputPool ==
    {BareInput("Paris"), BareInput("Berlin"), BareInput("Rome"), WikiUrl("de", "Berlin")}

Langs == {"fr", "de"}
Titles == {"Paris", "Berlin", "Rome"}
RemotePages == Langs \X Titles

None == "None"

(***************************************************************************)
(* pipeline.py:76-134  resolver, grouping, batching.                        *)
(***************************************************************************)
\* str.replace("_", " ") followed by urllib.parse.unquote, on the titles of the pool
unquote_title(raw) ==
    CASE raw = "Emmanuel_Macron" -> "Emmanuel Macron"
      [] OTHER -> raw

HasWikipediaOrg(netloc) ==
    \E i \in 1..(Len(netloc) - 1) : netloc[i] = "wikipedia" /\ netloc[i + 1] = "org"

\* a ValueError of urlparse lands in the except and falls through to the
\* final return
extract_clean_title_and_language(input) ==
    IF input.http /\ ~input.invalid /\ HasWikipediaOrg(input.netloc)
       /\ Len(input.path) >= 2
    THEN <<unquote_title(input.path[2]), input.netloc[1]>>
    ELSE <<input.text, None>>

\* the same with the module's default in place of the caller's
PageInfo_module_default(input, default_language) ==
    LET r == extract_clean_title_and_language(input)
        final_lang == IF r[2] # None THEN r[2] ELSE DEFAULT_LANGUAGE
    IN  [original_input |-> input.text,
         clean_title |-> r[1],
         language |-> final_lang,
         unique_key |-> r[1] \o "___" \o final_lang]

PageInfo(input, default_language) ==
    LET r == extract_clean_title_and_language(input)
        final_lang == IF r[2] # None THEN r[2] ELSE default_language
    IN  [original_input |-> input.text,
         clean_title |-> r[1],
         language |-> final_lang,
         unique_key |-> r[1] \o "___" \o final_lang]

prepare_pages_with_languages(ps, default_language) ==
    [i \in 1..Len(ps) |-> PageInfo(ps[i], default_language)]

\* languages in order of first appearance (the key order of the dict lang_groups)
RECURSIVE LangOrder(_)
LangOrder(infos) ==
    IF infos = <<>> THEN <<>>
    ELSE LET l == infos[1].language
             rest == SelectSeq(Tail(infos), LAMBDA p : p.language # l)
         IN  <<l>> \o LangOrder(rest)

group_pages_by_language(infos, lang) ==
    SelectSeq(infos, LAMBDA p : p.language = lang)

\* the full batches only, without the shorter last one
split_full_batches_only(ps, size) ==
    [i \in 1..(Len(ps) \div size) |-> SubSeq(ps, (i - 1) * size + 1, i * size)]

\* range(0, len(pages), 0) raises ValueError
range_raises(size) == size = 0

\* [pages[i:i + batch_size] for i in range(0, len(pages), batch_size)]; the
\* range of a negative step is empty
split_pages_into_batches(ps, size) ==
    IF size < 0 THEN <<>>
    ELSE [b \in 1..((Len(ps) + size - 1) \div size) |->
             SubSeq(ps, (b - 1) * size + 1, Min2(b * size, Len(ps)))]

(***************************************************************************)
(* The remote wikis.  env[<<lang, title>>] is how lang.wikipedia.org        *)
(* answers for the page: "ok" (data served), "empty" (the page does not     *)
(* exist, or no revision is served for it), "error" (HTTP error status or   *)
(* connection failure), "hang" (the server never answers).                  *)
(***************************************************************************)
Behaviours == {"ok", "empty", "error", "hang"}

Envs ==
    {e \in [RemotePages -> Behaviours] :
        Cardinality({p \in RemotePages : e[p] # "ok"}) <= MaxBad}

\* The three served pages carry different data.
DataLevel(page) ==
    CASE page = <<"fr", "Paris">> -> 1
      [] page = <<"fr", "Berlin">> -> 2
      [] page = <<"de", "Berlin">> -> 3
      [] OTHER -> 1

(***************************************************************************)
(* The 16 collectors, as far as the orchestrator sees them.                 *)
(***************************************************************************)
\* protection.py:19-40  LEVEL_SCORE.get(level, 2): 0.25 .. 1, and 2 for a
\* protection level the table does not list
LEVEL_SCORE_UNKNOWN == 200

\* Score the collector's algorithm computes from the data of a served page,
\* in hundredths, by data level.
MetricLevels(m) ==
    CASE m = "Protection" -> <<25, LEVEL_SCORE_UNKNOWN, 100>>
      [] m = "Sockpuppets" -> <<100, 0, 100>>
      [] m = "Suspicious sources" -> <<50, 100, 0>>
      [] OTHER -> <<50, 100, 10>>

RemoteScore(m, page) == MetricLevels(m)[DataLevel(page)]

\* pipeline.py:167-181: the positional call.  get_user_detection_score(pages,
\* csv_path, users, lang="fr") is called as metric_func(titles, csv, lang): the
\* language lands in `users` and `lang` keeps its default.
CollectorLang(m, lang) == IF m = "Sockpuppets" THEN "fr" ELSE lang

\* pipeline.py:176-177: metric_func(titles, lang, 365, end) on
\* get_recency_score(pages, lang, max_days) passes one argument too many.
CallRaises(m) == m = "Staleness"

\* Collectors that catch the failure of one page and go on with the next.
\* discussion_score, get_anon_edit_score_series and get_blacklist_share let
\* the HTTP error of a page escape.
AbsorbsPageFailure(m) ==
    m \notin {"Discussion intensity", "Anonymity", "Suspicious sources"}

\* ref.py: a failed fetch yields "" and _citation_gap_from_text("") is 1.0
FailureScore(m) == IF m = "Citation gaps" THEN 100 ELSE 0

\* Score of a page served without revisions: _citation_gap_from_text("") is
\* 1.0 (refs == 0) and analyze_page gives recency_score 1.0; the other
\* collectors give 0.0
EmptyScore(m) == IF m \in {"Citation gaps", "Staleness"} THEN 100 ELSE 0

\* monopol.py:47 requests.get(...) carries no timeout
HasRequestTimeout(m) == m # "Contributors concentration"

\* How the request for one page ends inside collector m.
PageOutcome(m, host, title, e) ==
    LET b == e[<<host, title>>] IN
    IF b = "hang" /\ HasRequestTimeout(m) THEN "error" ELSE b

\* The collector's loop over the titles of its batch.
RECURSIVE CollectorLoop(_, _, _, _, _, _)
CollectorLoop(m, host, titles, e, data, calls) ==
    IF titles = <<>> THEN [kind |-> "series", tuple_len |-> 0, data |-> data, calls |-> calls]
    ELSE LET t == Head(titles)
             o == PageOutcome(m, host, t, e)
             called == calls \cup {<<host, t>>}
         IN  CASE o = "hang" ->
                      [kind |-> "hang", tuple_len |-> 0, data |-> data, calls |-> called]
               [] o = "error" /\ ~AbsorbsPageFailure(m) ->
                      [kind |-> "raise", tuple_len |-> 0, data |-> data, calls |-> called]
               [] o = "error" /\ AbsorbsPageFailure(m) ->
                      CollectorLoop(m, host, Tail(titles), e,
                                    (t :> Num(FailureScore(m))) @@ data, called)
               [] o = "empty" ->
                      CollectorLoop(m, host, Tail(titles), e,
                                    (t :> Num(EmptyScore(m))) @@ data, called)
               [] OTHER ->
                      CollectorLoop(m, host, Tail(titles), e,
                                    (t :> Num(RemoteScore(m, <<host, t>>))) @@ data, called)

Collector(m, lang, titles, e) ==
    IF CallRaises(m)
    THEN [kind |-> "raise", tuple_len |-> 0, data |-> <<>>, calls |-> {}]
    ELSE CollectorLoop(m, CollectorLang(m, lang), titles, e, <<>>, {})

(***************************************************************************)
(* pipeline.py:141-211  execute_single_metric_lang_batch, from the          *)
(* collector's result on.  A result is [kind, tuple_len, data]: what the    *)
(* collector did, the length of the tuple it wrapped its object in (0: no   *)
(* tuple), and the title -> value content of the object.                    *)
(***************************************************************************)
ResultKinds == {"raise", "series", "dict", "frame", "other"}

Times100(x) == IF x.k = "num" THEN Num(x.v * 100) ELSE x

BatchTitles(page_batch) == {page_batch[i].clean_title : i \in 1..Len(page_batch)}

\* pipeline.py:211
ZeroMap(page_batch) == [t \in BatchTitles(page_batch) |-> Num(0)]

\* pipeline.py:186: `result, extra_data = result` needs a pair
UnpackRaises(result) == result.tuple_len \notin {0, 2}

\* float() / astype(float) fails on an object that is no number
ConversionRaises(result) ==
    /\ result.kind \in {"series", "dict", "frame"}
    /\ \E t \in DOMAIN result.data : result.data[t].k = "str"

raw_dict(result) ==
    IF result.kind \in {"series", "dict", "frame"} THEN result.data ELSE <<>>

\* pipeline.py:162-207: the body of the try
TryBody(result, page_batch) ==
    IF result.kind = "raise" \/ UnpackRaises(result) \/ ConversionRaises(result)
    THEN [kind |-> "raise", final_dict |-> <<>>]
    ELSE [kind |-> "return",
          final_dict |-> [t \in BatchTitles(page_batch) |->
                             IF t \in DOMAIN raw_dict(result)
                             THEN Times100(raw_dict(result)[t])
                             ELSE Times100(Num(0))]]

\* the same call without the except branch of pipeline.py:209-211
execute_without_except(result, page_batch) == TryBody(result, page_batch)

execute_single_metric_lang_batch(result, page_batch) ==
    LET body == TryBody(result, page_batch)
    IN  IF body.kind = "raise"
        THEN [kind |-> "return", final_dict |-> ZeroMap(page_batch)]
        ELSE body

TitlesOf(page_batch) == [i \in 1..Len(page_batch) |-> page_batch[i].clean_title]

(***************************************************************************)
(* pipeline.py:236-419  collect_metrics_parallel_multilang.                 *)
(***************************************************************************)
\* pipeline.py:284-290 and 363-374: the work items of one metric, in
\* submission order (languages in dict order, batches by index)
RECURSIVE WorkItems(_, _, _)
WorkItems(infos, langs, size) ==
    IF langs = <<>> THEN <<>>
    ELSE LET batches == split_pages_into_batches(
                            group_pages_by_language(infos, Head(langs)), size)
         IN  [i \in 1..Len(batches) |->
                 [lang |-> Head(langs), batch_idx |-> i - 1, page_batch |-> batches[i]]]
             \o WorkItems(infos, Tail(langs), size)

\* a lookup that matches the title alone
lookup_map_get_by_title(infos, title, lang) ==
    IF \E i \in 1..Len(infos) : infos[i].clean_title = title
    THEN LET i == CHOOSE j \in 1..Len(infos) : infos[j].clean_title = title
         IN  infos[i].unique_key
    ELSE None

\* pipeline.py:297  lookup_map.get((title, lang))
lookup_map_get(infos, title, lang) ==
    IF \E i \in 1..Len(infos) :
           infos[i].clean_title = title /\ infos[i].language = lang
    THEN LET i == CHOOSE j \in 1..Len(infos) :
                      infos[j].clean_title = title /\ infos[j].language = lang
         IN  infos[i].unique_key
    ELSE None

all_unique_keys(infos) == [i \in 1..Len(infos) |-> infos[i].unique_key]

\* pipeline.py:396-399: remap the titles of one result map and store the cells
Accumulate(acc, infos, item, batch_results) ==
    LET written == {t \in DOMAIN batch_results :
                       lookup_map_get(infos, t, item.lang) # None}
        keyOf(t) == lookup_map_get(infos, t, item.lang)
        newKeys == {keyOf(t) : t \in written}
    IN  [uk \in DOMAIN acc \cup newKeys |->
            IF uk \in newKeys
            THEN batch_results[CHOOSE t \in written : keyOf(t) = uk]
            ELSE acc[uk]]

\* pipeline.py:411-413: pd.Series(data_dict).reindex(all_unique_keys, fill_value=0.0);
\* the index of the result is all_unique_keys as given, repeated keys included
Reindex(acc, keys) ==
    [i \in 1..Len(keys) |->
        <<keys[i], IF keys[i] \in DOMAIN acc THEN acc[keys[i]] ELSE Num(0)>>]

\* pipeline.py:458-459: to_numeric(errors="coerce").fillna(0.0), then a reindex
\* on the same key list
to_numeric_fillna(rows) ==
    [i \in 1..Len(rows) |->
        <<rows[i][1], IF rows[i][2].k = "num" THEN rows[i][2] ELSE Num(0)>>]

HasDuplicateKeys(infos) ==
    \E i, j \in 1..Len(infos) : i < j /\ infos[i].unique_key = infos[j].unique_key

\* pipeline.py:499-557: Series.get / DataFrame.loc on a key held by two rows
\* return a Series, float() of it raises TypeError, and the wrapper's except
\* turns that into {"error": ...}
Envelope(infos, column) ==
    IF HasDuplicateKeys(infos)
    THEN [kind |-> "error", pages |-> <<>>]
    ELSE [kind |-> "ok",
          pages |-> [i \in 1..Len(infos) |->
                        [title |-> infos[i].clean_title,
                         original_input |-> infos[i].original_input,
                         language |-> infos[i].language,
                         unique_key |-> infos[i].unique_key,
                         value |-> column[i][2]]]]

(***************************************************************************)
(* The analysis as a state machine.                                         *)
(***************************************************************************)
IdleEx == [pc |-> "idle"]
IdleSc == [pc |-> "idle"]

Init ==
    /\ pages \in SeqsUpTo(InputPool, MaxPages)
    /\ batch_size \in 1..MaxBatch
    /\ env \in Envs
    /\ metric \in Metrics
    /\ pc = "start"
    /\ page_infos = <<>>
    /\ future_map = <<>>
    /\ fstate = <<>>
    /\ fresult = <<>>
    /\ api_calls = {}
    /\ results_accumulator = <<>>
    /\ final_results = <<>>
    /\ metrics = <<>>
    /\ api_result = [kind |-> "none", pages |-> <<>>]
    /\ ex = IdleEx
    /\ sc = IdleSc

\* pipeline.py:450
Prepare ==
    /\ pc = "start"
    /\ page_infos' = prepare_pages_with_languages(pages, DEFAULT_LANGUAGE)
    /\ pc' = "prepared"
    /\ UNCHANGED <<pages, batch_size, env, metric, future_map, fstate, fresult,
                   api_calls, results_accumulator, final_results, metrics,
                   api_result, ex, sc>>

\* pipeline.py:279-376
Submit ==
    /\ pc = "prepared"
    /\ future_map' = WorkItems(page_infos, LangOrder(page_infos), batch_size)
    /\ fstate' = [i \in 1..Len(future_map') |-> "running"]
    /\ fresult' = [i \in 1..Len(future_map') |-> <<>>]
    /\ pc' = "collecting"
    /\ UNCHANGED <<pages, batch_size, env, metric, page_infos, api_calls,
                   results_accumulator, final_results, metrics, api_result, ex, sc>>

\* a pool thread that stores its result in the accumulator itself
WorkerRun_storing_result(i) ==
    /\ pc = "collecting"
    /\ fstate[i] = "running"
    /\ LET item == future_map[i]
           r == Collector(metric, item.lang, TitlesOf(item.page_batch), env)
           batch_results == execute_single_metric_lang_batch(r, item.page_batch).final_dict
       IN  /\ api_calls' = api_calls \cup
                  {[page_lang |-> item.lang, host |-> c[1], title |-> c[2]] : c \in r.calls}
           /\ IF r.kind = "hang"
              THEN /\ fstate' = [fstate EXCEPT ![i] = "hung"]
                   /\ UNCHANGED <<fresult, results_accumulator>>
              ELSE /\ fstate' = [fstate EXCEPT ![i] = "finished"]
                   /\ fresult' = [fresult EXCEPT ![i] = batch_results]
                   /\ results_accumulator' =
                          Accumulate(results_accumulator, page_infos, item, batch_results)
    /\ UNCHANGED <<pages, batch_size, env, metric, pc, page_infos, future_map,
                   final_results, metrics, api_result, ex, sc>>

\* A pool thread runs execute_single_metric_lang_batch on work item i.  A
\* request that never returns leaves the thread in the call for good.
WorkerRun(i) ==
    /\ pc = "collecting"
    /\ fstate[i] = "running"
    /\ LET item == future_map[i]
           r == Collector(metric, item.lang, TitlesOf(item.page_batch), env)
       IN  /\ api_calls' = api_calls \cup
                  {[page_lang |-> item.lang, host |-> c[1], title |-> c[2]] : c \in r.calls}
           /\ IF r.kind = "hang"
              THEN /\ fstate' = [fstate EXCEPT ![i] = "hung"]
                   /\ UNCHANGED fresult
              ELSE /\ fstate' = [fstate EXCEPT ![i] = "finished"]
                   /\ fresult' = [fresult EXCEPT ![i] =
                          execute_single_metric_lang_batch(r, item.page_batch).final_dict]
    /\ UNCHANGED <<pages, batch_size, env, metric, pc, page_infos, future_map,
                   results_accumulator, final_results, metrics, api_result, ex, sc>>

\* pipeline.py:381-406: as_completed hands over a finished future; its result
\* is there, so result(timeout=120) returns at once.
Collect(i) ==
    /\ pc = "collecting"
    /\ fstate[i] = "finished"
    /\ results_accumulator' =
           Accumulate(results_accumulator, page_infos, future_map[i], fresult[i])
    /\ fstate' = [fstate EXCEPT ![i] = "collected"]
    /\ UNCHANGED <<pages, batch_size, env, metric, pc, page_infos, future_map,
                   fresult, api_calls, final_results, metrics, api_result, ex, sc>>

\* pipeline.py:408-419: reached once as_completed has yielded every future
Build ==
    /\ pc = "collecting"
    /\ \A i \in 1..Len(future_map) : fstate[i] = "collected"
    /\ final_results' = Reindex(results_accumulator, all_unique_keys(page_infos))
    /\ pc' = "built"
    /\ UNCHANGED <<pages, batch_size, env, metric, page_infos, future_map, fstate,
                   fresult, api_calls, results_accumulator, metrics, api_result, ex, sc>>

\* pipeline.py:457-459
Frame ==
    /\ pc = "built"
    /\ metrics' = to_numeric_fillna(final_results)
    /\ pc' = "scored"
    /\ UNCHANGED <<pages, batch_size, env, metric, page_infos, future_map, fstate,
                   fresult, api_calls, results_accumulator, final_results,
                   api_result, ex, sc>>

\* pipeline.py:499-557
Respond ==
    /\ pc = "scored"
    /\ api_result' = Envelope(page_infos, metrics)
    /\ pc' = "done"
    /\ UNCHANGED <<pages, batch_size, env, metric, page_infos, future_map, fstate,
                   fresult, api_calls, results_accumulator, final_results,
                   metrics, ex, sc>>

Next ==
    \/ Prepare
    \/ Submit
    \/ \E i \in 1..Len(future_map) : WorkerRun(i)
    \/ \E i \in 1..Len(future_map) : Collect(i)
    \/ Build
    \/ Frame
    \/ Respond

Spec == Init /\ [][Next]_vars

(***************************************************************************)
(* One call of execute_single_metric_lang_batch on an arbitrary collector   *)
(* result: the collector raised, or returned a Series, a dict, an object    *)
(* with a Score column or something else, bare or inside a tuple, reporting *)
(* any part of the batch and titles outside of it.                          *)
(***************************************************************************)
ExecValues == {Num(0), Num(50), NaN, NotANumber}

ExecResults ==
    [kind : ResultKinds,
     tuple_len : {0, 2, 3},
     data : UNION {[S -> ExecValues] : S \in SUBSET Titles}]

ExecBatches ==
    SeqsUpTo({PageInfo(BareInput(t), DEFAULT_LANGUAGE) : t \in Titles}, MaxPages)

ExecInit ==
    /\ ex \in [pc : {"ready"}, page_batch : ExecBatches, result : ExecResults]
    /\ sc = IdleSc
    /\ pages = <<>>
    /\ batch_size = DEFAULT_BATCH_SIZE
    /\ env = [p \in RemotePages |-> "ok"]
    /\ metric = metric_configs[1]
    /\ pc = "idle"
    /\ page_infos = <<>>
    /\ future_map = <<>>
    /\ fstate = <<>>
    /\ fresult = <<>>
    /\ api_calls = {}
    /\ results_accumulator = <<>>
    /\ final_results = <<>>
    /\ metrics = <<>>
    /\ api_result = [kind |-> "none", pages |-> <<>>]

ExecuteBatch ==
    /\ ex.pc = "ready"
    /\ ex' = [pc |-> "returned", page_batch |-> ex.page_batch, result |-> ex.result,
              outcome |-> execute_single_metric_lang_batch(ex.result, ex.page_batch)]
    /\ UNCHANGED orchVars
    /\ UNCHANGED sc

ExecNext == ExecuteBatch

ExecSpec == ExecInit /\ [][ExecNext]_vars

(***************************************************************************)
(* One call of prepare_pages_with_languages, on bare titles, Wikipedia      *)
(* URLs, URLs of other shapes and strings urlparse rejects.                 *)
(***************************************************************************)
MaxInputs == 2

ResolverInputs ==
    {BareInput("Paris"),
     BareInput("fr.wikipedia.org/wiki/Paris"),
     [BareInput("http cookie") EXCEPT !.http = TRUE, !.path = <<"http cookie">>],
     WikiUrl("de", "Berlin"),
     WikiUrl("fr", "Emmanuel_Macron"),
     Url("https://fr.wikipedia.org/w/index.php", <<"fr", "wikipedia", "org">>,
         <<"/w/index.php">>),
     Url("https://example.com/wiki/Paris", <<"example", "com">>, <<"", "Paris">>),
     Url("https://wikipedia.org/wiki/Paris", <<"wikipedia", "org">>, <<"", "Paris">>),
     Url("https://wikipedia.org.example.com/wiki/Paris",
         <<"wikipedia", "org", "example", "com">>, <<"", "Paris">>),
     InvalidUrl("http://[fr.wikipedia.org/wiki/Paris")}

ResolverInit ==
    /\ ex \in [pc : {"resolving"}, pages : SeqsUpTo(ResolverInputs, MaxInputs),
               default_language : Langs]
    /\ sc = IdleSc
    /\ pages = <<>>
    /\ batch_size = DEFAULT_BATCH_SIZE
    /\ env = [p \in RemotePages |-> "ok"]
    /\ metric = metric_configs[1]
    /\ pc = "idle"
    /\ page_infos = <<>>
    /\ future_map = <<>>
    /\ fstate = <<>>
    /\ fresult = <<>>
    /\ api_calls = {}
    /\ results_accumulator = <<>>
    /\ final_results = <<>>
    /\ metrics = <<>>
    /\ api_result = [kind |-> "none", pages |-> <<>>]

Resolve ==
    /\ ex.pc = "resolving"
    /\ ex' = [pc |-> "resolved", pages |-> ex.pages,
              default_language |-> ex.default_language,
              page_infos |-> prepare_pages_with_languages(ex.pages, ex.default_language)]
    /\ UNCHANGED orchVars
    /\ UNCHANGED sc

ResolverNext == Resolve

ResolverSpec == ResolverInit /\ [][ResolverNext]_vars

(***************************************************************************)
(* pipeline.py:279-376  the plan of one collection: the batches of every    *)
(* language, the size of the worker pool and the work items submitted for   *)
(* all 16 metrics.  The request holds n_fr bare titles followed by n_de     *)
(* URLs of de.wikipedia.org, all distinct.                                  *)
(***************************************************************************)
MaxGroup == 5
MaxSecondGroup == 2

GroupSizes == (0..MaxGroup) \cup {40, 130}
BatchSizes == (1..MaxBatch) \cup {20}
WorkerBases == {MAX_WORKERS, MAX_WORKERS \div 2, MAX_WORKERS + 4}

DistinctPages(n_fr, n_de) ==
    [i \in 1..(n_fr + n_de) |->
        IF i <= n_fr THEN BareInput("P" \o ToString(i))
        ELSE WikiUrl("de", "P" \o ToString(i))]

\* pipeline.py:284-290
lang_batches(infos, size) ==
    [l \in Range(LangOrder(infos)) |->
        split_pages_into_batches(group_pages_by_language(infos, l), size)]

\* pipeline.py:285-290  total_batches += len(batches)
RECURSIVE TotalBatches(_, _, _)
TotalBatches(infos, langs, size) ==
    IF langs = <<>> THEN 0
    ELSE Len(lang_batches(infos, size)[Head(langs)])
         + TotalBatches(infos, Tail(langs), size)

\* pipeline.py:341-346
dynamic_workers(total_batches, max_workers) ==
    IF total_batches > 100 THEN Min2(max_workers * 3, 48)
    ELSE IF total_batches > 50 THEN Min2(max_workers * 2, 32)
    ELSE max_workers

\* only the first batch of every language is submitted
SubmittedItems_first_batch_only(infos, size) ==
    LET one == SelectSeq(WorkItems(infos, LangOrder(infos), size),
                         LAMBDA w : w.batch_idx = 0)
        k == Len(one)
    IN  [j \in 1..(Len(metric_configs) * k) |->
            LET item == one[((j - 1) % k) + 1]
            IN  [metric |-> metric_configs[((j - 1) \div k) + 1], lang |-> item.lang,
                 batch_idx |-> item.batch_idx, page_batch |-> item.page_batch]]

\* pipeline.py:363-374: the triple loop metric x language x batch
SubmittedItems(infos, size) ==
    LET one == WorkItems(infos, LangOrder(infos), size)
        k == Len(one)
    IN  [j \in 1..(Len(metric_configs) * k) |->
            LET item == one[((j - 1) % k) + 1]
            IN  [metric |-> metric_configs[((j - 1) \div k) + 1], lang |-> item.lang,
                 batch_idx |-> item.batch_idx, page_batch |-> item.page_batch]]

PlanInit ==
    /\ ex \in [pc : {"planning"}, n_fr : GroupSizes, n_de : 0..MaxSecondGroup,
               batch_size : BatchSizes, max_workers : WorkerBases]
    /\ sc = IdleSc
    /\ pages = <<>>
    /\ batch_size = DEFAULT_BATCH_SIZE
    /\ env = [p \in RemotePages |-> "ok"]
    /\ metric = metric_configs[1]
    /\ pc = "idle"
    /\ page_infos = <<>>
    /\ future_map = <<>>
    /\ fstate = <<>>
    /\ fresult = <<>>
    /\ api_calls = {}
    /\ results_accumulator = <<>>
    /\ final_results = <<>>
    /\ metrics = <<>>
    /\ api_result = [kind |-> "none", pages |-> <<>>]

Plan ==
    /\ ex.pc = "planning"
    /\ LET infos == prepare_pages_with_languages(DistinctPages(ex.n_fr, ex.n_de),
                                                 DEFAULT_LANGUAGE)
       IN  ex' = [pc |-> "planned", n_fr |-> ex.n_fr, n_de |-> ex.n_de,
                  batch_size |-> ex.batch_size, max_workers |-> ex.max_workers,
                  page_infos |-> infos,
                  lang_batches |-> lang_batches(infos, ex.batch_size),
                  dynamic_workers |->
                      dynamic_workers(TotalBatches(infos, LangOrder(infos), ex.batch_size),
                                      ex.max_workers),
                  work_items |-> SubmittedItems(infos, ex.batch_size)]
    /\ UNCHANGED orchVars
    /\ UNCHANGED sc

PlanNext == Plan

PlanSpec == PlanInit /\ [][PlanNext]_vars

(***************************************************************************)
(* One call of a collector on a batch of titles of one wiki.                *)
(***************************************************************************)
CallInit ==
    /\ metric \in Metrics
    /\ env \in Envs
    /\ ex \in [pc : {"calling"}, lang : Langs, titles : SeqsUpTo(Titles, MaxPages)]
    /\ sc = IdleSc
    /\ pages = <<>>
    /\ batch_size = DEFAULT_BATCH_SIZE
    /\ pc = "idle"
    /\ page_infos = <<>>
    /\ future_map = <<>>
    /\ fstate = <<>>
    /\ fresult = <<>>
    /\ api_calls = {}
    /\ results_accumulator = <<>>
    /\ final_results = <<>>
    /\ metrics = <<>>
    /\ api_result = [kind |-> "none", pages |-> <<>>]

CollectorCall ==
    /\ ex.pc = "calling"
    /\ ex' = [pc |-> "called", lang |-> ex.lang, titles |-> ex.titles,
              result |-> CollectorLoop(metric, ex.lang, ex.titles, env, <<>>, {})]
    /\ UNCHANGED orchVars
    /\ UNCHANGED sc

CallNext == CollectorCall

CallSpec == CallInit /\ [][CallNext]_vars

(***************************************************************************)
(* pipeline.py:457-478  the scores of one page, from the values the 16      *)
(* collectors returned for it.  Scores are exact fractions of hundredths.   *)
(***************************************************************************)
\* values a collector returns for a page, in hundredths: the ends of [0, 1],
\* and for Protection the entries of LEVEL_SCORE and its default
CollectorValues(m) ==
    IF m = "Protection" THEN {0, 25, 100, LEVEL_SCORE_UNKNOWN} ELSE {0, 100}

\* pipeline.py:466-472
calc_score(row, weights) ==
    Frac(SumOver([m \in DOMAIN weights |-> row[m].v * weights[m]], DOMAIN weights),
         SumOver(weights, DOMAIN weights))

\* a mean over two of the three composite scores
sensitivity_without_risk(heat, quality, risk) ==
    FracDivInt(FracAdd(heat, quality), 2)

\* pipeline.py:478
sensitivity(heat, quality, risk) ==
    FracDivInt(FracAdd(FracAdd(heat, quality), risk), 3)

ScoreInit ==
    /\ \E vals \in [Metrics \ {"Protection"} -> CollectorValues("Views spikes")] :
       \E p \in CollectorValues("Protection") :
           sc = [pc |-> "collected",
                 values |-> [m \in Metrics |-> IF m = "Protection" THEN p ELSE vals[m]]]
    /\ ex = IdleEx
    /\ pages = <<>>
    /\ batch_size = DEFAULT_BATCH_SIZE
    /\ env = [p \in RemotePages |-> "ok"]
    /\ metric = metric_configs[1]
    /\ pc = "idle"
    /\ page_infos = <<>>
    /\ future_map = <<>>
    /\ fstate = <<>>
    /\ fresult = <<>>
    /\ api_calls = {}
    /\ results_accumulator = <<>>
    /\ final_results = <<>>
    /\ metrics = <<>>
    /\ api_result = [kind |-> "none", pages |-> <<>>]

\* pipeline.py:200-207 and 457-459: the row of the matrix
ScoreCells ==
    /\ sc.pc = "collected"
    /\ sc' = [pc |-> "cells", values |-> sc.values,
              row |-> [m \in Metrics |->
                          LET cell == Times100(Num(sc.values[m]))
                          IN  IF cell.k = "num" THEN cell ELSE Num(0)]]
    /\ UNCHANGED orchVars
    /\ UNCHANGED ex

\* pipeline.py:461-478
ScoreCompute ==
    /\ sc.pc = "cells"
    /\ LET heat == calc_score(sc.row, HEAT_W)
           quality == calc_score(sc.row, QUAL_W)
           risk == calc_score(sc.row, RISK_W)
       IN  sc' = [pc |-> "scored", values |-> sc.values, row |-> sc.row,
                  heat |-> heat, quality |-> quality, risk |-> risk,
                  sensitivity |-> sensitivity(heat, quality, risk)]
    /\ UNCHANGED orchVars
    /\ UNCHANGED ex

ScoreNext == ScoreCells \/ ScoreCompute

ScoreSpec == ScoreInit /\ [][ScoreNext]_vars

(***************************************************************************)
(* The same collection with the work items completing in submission order,  *)
(* as a function of the inputs (a work item that never returns is never     *)
(* yielded by as_completed).                                                *)
(***************************************************************************)
RECURSIVE CollectInOrder(_, _, _, _, _)
CollectInOrder(acc, infos, items, m, e) ==
    IF items = <<>> THEN acc
    ELSE LET item == Head(items)
             r == Collector(m, item.lang, TitlesOf(item.page_batch), e)
         IN  IF r.kind = "hang"
             THEN CollectInOrder(acc, infos, Tail(items), m, e)
             ELSE CollectInOrder(
                      Accumulate(acc, infos, item,
                                 execute_single_metric_lang_batch(r, item.page_batch).final_dict),
                      infos, Tail(items), m, e)

RunColumn(ps, size, m, e) ==
    LET infos == prepare_pages_with_languages(ps, DEFAULT_LANGUAGE)
    IN  Reindex(CollectInOrder(<<>>, infos,
                               WorkItems(infos, LangOrder(infos), size), m, e),
                all_unique_keys(infos))

IndexPermutations(n) ==
    {f \in [1..n -> 1..n] : \A i, j \in 1..n : i # j => f[i] # f[j]}

\* work item i ended in the except branch of execute_single_metric_lang_batch
ItemFailed(i) ==
    Collector(metric, future_map[i].lang, TitlesOf(future_map[i].page_batch), env).kind
        = "raise"

DistinctKeys(infos) == {infos[i].unique_key : i \in 1..Len(infos)}

Collected == pc \in {"built", "scored", "done"}

(***************************************************************************)
(* Claims C1 - C10.                                                         *)
(***************************************************************************)

\* C1: the metric matrix returned by collect_metrics_parallel_multilang does
\* not depend on the order in which the work items complete: whatever the
\* completion order, it is the matrix obtained when they complete in
\* submission order.
C1_CompletionOrderIrrelevant ==
    Collected => final_results = RunColumn(pages, batch_size, metric, env)

\* C2: the orchestrator never blocks indefinitely: also when a work item
\* exceeds its deadline because a request of its collector never returns, the
\* analysis is finished or can take a further step.
C2_OrchestratorNeverBlocks ==
    pc = "done" \/ ENABLED Next

\* C3: when a work item fails, every cell belonging to any other work item
\* keeps the value that work item's own collector returned.
C3_FailureZeroesOwnCellsOnly ==
    Collected =>
        \A i \in 1..Len(future_map) :
            ItemFailed(i) =>
                \A j \in 1..Len(future_map) : \A k \in 1..Len(future_map[j].page_batch) :
                    j # i =>
                        \A r \in 1..Len(final_results) :
                            final_results[r][1] = future_map[j].page_batch[k].unique_key
                                => final_results[r][2]
                                       = fresult[j][future_map[j].page_batch[k].clean_title]

\* titles the collector's object reports
Reported(result) ==
    IF result.kind \in {"series", "dict", "frame"} THEN DOMAIN result.data ELSE {}

\* C4: execute_single_metric_lang_batch never raises: whatever the collector
\* did, the call returns one score map whose keys are exactly the clean titles
\* of its batch, with 0.0 for every title the collector did not report.
C4_ExecutorReturnsFullMap ==
    ex.pc = "returned" =>
        /\ ex.outcome.kind = "return"
        /\ DOMAIN ex.outcome.final_dict = Range(TitlesOf(ex.page_batch))
        /\ \A t \in DOMAIN ex.outcome.final_dict :
               t \notin Reported(ex.result) => ex.outcome.final_dict[t] = Num(0)

\* The executor returned for a batch of two titles of which the collector's
\* Series reports one, with a non-zero value, and not the other.
C4_Witness ==
    /\ ex.pc = "returned"
    /\ ex.result.kind = "series"
    /\ ex.result.tuple_len = 0
    /\ \E t, u \in Range(TitlesOf(ex.page_batch)) :
           /\ t \in Reported(ex.result)
           /\ ex.outcome.final_dict[t] = Num(5000)
           /\ u \notin Reported(ex.result)

\* C5: after collection the matrix holds exactly one row of finite cells per
\* unique key, and a cell no work item filled is 0.0.
C5_MatrixOneCellPerKey ==
    (pc \in {"scored", "done"}) =>
        /\ Len(metrics) = Cardinality(DistinctKeys(page_infos))
        /\ \A r \in 1..Len(metrics) :
               /\ metrics[r][2].k = "num"
               /\ metrics[r][1] \notin DOMAIN results_accumulator
                      => metrics[r][2] = Num(0)

\* C6: duplicate inputs collapse: the result holds exactly one row per
\* distinct unique key, in the matrix and in the pages list.
C6_DuplicatesCollapse ==
    pc = "done" =>
        /\ api_result.kind = "ok"
        /\ Len(api_result.pages) = Cardinality(DistinctKeys(page_infos))
        /\ Len(metrics) = Cardinality(DistinctKeys(page_infos))

\* C7: for every value the collectors can return, each of heat, quality,
\* risk and sensitivity of a page is finite and lies in [0, 100].
C7_ScoresWithinRange ==
    sc.pc = "scored" =>
        \A s \in {sc.heat, sc.quality, sc.risk, sc.sensitivity} :
            /\ FracLeq(Frac(0, 1), s)
            /\ FracLeq(s, Frac(100 * 100, 1))

\* C8: every API call made on behalf of a page goes to the wiki of that
\* page's own language.
C8_CallsStayOnOwnWiki ==
    \A c \in api_calls : c.host = c.page_lang

\* C9: the per-page scores computed with batch size B equal the scores
\* computed with a single batch holding all pages of the language.
C9_BatchSizeIrrelevant ==
    Collected =>
        final_results =
            RunColumn(pages, IF Len(pages) = 0 THEN 1 ELSE Len(pages), metric, env)

\* C10: reordering the input list permutes the output rows in the same way
\* and changes no score.
C10_ReorderingPermutesRows ==
    Collected =>
        \A f \in IndexPermutations(Len(pages)) :
            LET reordered == [i \in 1..Len(pages) |-> pages[f[i]]]
                col == RunColumn(reordered, batch_size, metric, env)
            IN  \A i \in 1..Len(pages) : col[i] = final_results[f[i]]

\* C11: inside one collector call on a batch, a permanent HTTP failure for
\* one page gives 0.0 for that page only: the call returns its Series, and
\* every served page of the batch has the score computed from its own data.
C11_PageFailureConfined ==
    ex.pc = "called" =>
        LET page(k) == <<ex.lang, ex.titles[k]>>
            failed == {k \in 1..Len(ex.titles) : env[page(k)] = "error"}
        IN  failed # {} =>
                /\ ex.result.kind = "series"
                /\ \A k \in 1..Len(ex.titles) :
                       /\ ex.titles[k] \in DOMAIN ex.result.data
                       /\ k \in failed => ex.result.data[ex.titles[k]] = Num(0)
                       /\ env[page(k)] = "ok" =>
                              ex.result.data[ex.titles[k]] = Num(RemoteScore(metric, page(k)))

\* how the page's own wiki answers for page i of the request
OwnWiki(i) == env[<<page_infos[i].language, page_infos[i].clean_title>>]

\* C12: a requested page that does not exist on its wiki still has its row,
\* with every metric equal to 0.0 (hence heat, quality, risk and sensitivity
\* equal to 0), and the rows of the other pages are those of the request
\* without the missing page.
C12_MissingPageAllZero ==
    (pc \in {"scored", "done"}) =>
        LET present == SelectSeq(pages,
                LAMBDA p : env[<<PageInfo(p, DEFAULT_LANGUAGE).language,
                                 PageInfo(p, DEFAULT_LANGUAGE).clean_title>>] # "empty")
            base == to_numeric_fillna(RunColumn(present, batch_size, metric, env))
        IN  /\ Len(metrics) = Len(pages)
            /\ \A i \in 1..Len(metrics) :
                   IF OwnWiki(i) = "empty"
                   THEN metrics[i] = <<page_infos[i].unique_key, Num(0)>>
                   ELSE \E j \in 1..Len(base) : base[j] = metrics[i]

\* C13: when an exception escapes the scoring pipeline, the envelope carries
\* the top-level error and a list with one entry per requested page, each
\* with status "error".
C13_ErrorEnvelopeListsPages ==
    (pc = "done" /\ api_result.kind = "error") =>
        /\ Len(api_result.pages) = Len(pages)
        /\ \A i \in 1..Len(api_result.pages) : api_result.pages[i].status = "error"

\* the row of the first page over all 16 metrics
FirstRow ==
    [m \in Metrics |-> to_numeric_fillna(RunColumn(pages, batch_size, m, env))[1][2]]

\* C15: for the single input "Berlin" with default language fr and an empty
\* revision list served everywhere, every metric is 0.0 except Staleness and
\* Citation gaps, which are 1.0 (cell 100.0), and the sensitivity is
\* ((1*2 + 1*3) / 32 * 100) / 3 = 15.625 / 3.
C15_BerlinEmptyRevisions ==
    (/\ pc \in {"scored", "done"}
     /\ pages = <<BareInput("Berlin")>>
     /\ env[<<"fr", "Berlin">>] = "empty") =>
        /\ metrics[1][2] =
               Num(IF metric \in {"Staleness", "Citation gaps"} THEN 100 * 100 ELSE 0)
        /\ LET s == sensitivity(calc_score(FirstRow, HEAT_W),
                                calc_score(FirstRow, QUAL_W),
                                calc_score(FirstRow, RISK_W))
           IN  s.n * (32 * 3) = (5 * 100 * 100) * s.d

\* C14: the sensitivity of a page equals the arithmetic mean
\* (heat + quality + risk) / 3 of its three composite scores.
C14_SensitivityIsMean ==
    sc.pc = "scored" =>
        LET D == 2 * 3 * SumOver(HEAT_W, DOMAIN HEAT_W) * SumOver(QUAL_W, DOMAIN QUAL_W)
                       * SumOver(RISK_W, DOMAIN RISK_W)
            Over(f) == f.n * (D \div f.d)      \* f as a count of 1/D
        IN  /\ \A f \in {sc.heat, sc.quality, sc.risk, sc.sensitivity} : D % f.d = 0
            /\ 3 * Over(sc.sensitivity) = Over(sc.heat) + Over(sc.quality) + Over(sc.risk)

\* a scored page whose heat, quality and risk are positive and pairwise different
C14_Witness ==
    /\ sc.pc = "scored"
    /\ sc.heat.n > 0 /\ sc.quality.n > 0 /\ sc.risk.n > 0
    /\ sc.heat.n * sc.quality.d # sc.quality.n * sc.heat.d
    /\ sc.heat.n * sc.risk.d # sc.risk.n * sc.heat.d
    /\ sc.quality.n * sc.risk.d # sc.risk.n * sc.quality.d

\* the resolver takes the input for a Wikipedia URL
Recognised(input) ==
    /\ input.http /\ ~input.invalid
    /\ \E i \in 1..(Len(input.netloc) - 1) :
           input.netloc[i] = "wikipedia" /\ input.netloc[i + 1] = "org"
    /\ Len(input.path) >= 2

\* C16: the resolver never fails: prepare_pages_with_languages returns one
\* PageInfo for every input string, and an input that is not recognised as a
\* Wikipedia URL keeps its text as clean_title and gets the caller's default
\* language.
C16_ResolverTotal ==
    ex.pc = "resolved" =>
        /\ Len(ex.page_infos) = Len(ex.pages)
        /\ \A i \in 1..Len(ex.pages) :
               /\ ex.page_infos[i].original_input = ex.pages[i].text
               /\ ~Recognised(ex.pages[i]) =>
                      /\ ex.page_infos[i].clean_title = ex.pages[i].text
                      /\ ex.page_infos[i].language = ex.default_language

\* a string urlparse rejects and a URL of another site, resolved with a
\* default language other than the module's
C16_Witness ==
    /\ ex.pc = "resolved"
    /\ ex.default_language # DEFAULT_LANGUAGE
    /\ \E i, j \in 1..Len(ex.pages) :
           /\ ex.pages[i].invalid
           /\ ex.pages[j].http /\ ~ex.pages[j].invalid /\ ~Recognised(ex.pages[j])
           /\ ex.page_infos[j].language = ex.default_language

\* the host ends in .wikipedia.org
HostEndsInWikipediaOrg(netloc) ==
    /\ Len(netloc) >= 3
    /\ netloc[Len(netloc) - 1] = "wikipedia"
    /\ netloc[Len(netloc)] = "org"

\* C17: an input is resolved as a Wikipedia URL exactly when it starts with
\* http, its host ends in .wikipedia.org and its path contains /wiki/; then
\* the language is the leading sub-domain label and the title the decoded
\* path segment after /wiki/.  Every other input is passed through unchanged
\* with the default language.
C17_RecognisedExactlyWikipediaUrls ==
    ex.pc = "resolved" =>
        \A i \in 1..Len(ex.pages) :
            LET input == ex.pages[i]
                info == ex.page_infos[i]
            IN  IF /\ input.http /\ ~input.invalid
                   /\ HostEndsInWikipediaOrg(input.netloc)
                   /\ Len(input.path) >= 2
                THEN /\ info.language = input.netloc[1]
                     /\ info.clean_title = unquote_title(input.path[2])
                ELSE /\ info.clean_title = input.text
                     /\ info.language = ex.default_language

\* number of pages of language l in the plan
GroupSize(l) == Cardinality({i \in 1..Len(ex.page_infos) : ex.page_infos[i].language = l})

PlanLanguages == {ex.page_infos[i].language : i \in 1..Len(ex.page_infos)}

\* C18: the orchestrator submits exactly one work item for every (metric,
\* language, batch) triple and no other; 40 distinct pages of one language
\* with batch size 20 give 2 batches per metric and 16 * 2 = 32 work items.
C18_OneItemPerTriple ==
    ex.pc = "planned" =>
        LET W == ex.work_items
            nb(l) == (GroupSize(l) + ex.batch_size - 1) \div ex.batch_size
            triples == UNION {{<<m, l, b>> : b \in 0..(nb(l) - 1)} :
                                 <<m, l>> \in Metrics \X PlanLanguages}
            submitted == {<<W[j].metric, W[j].lang, W[j].batch_idx>> : j \in 1..Len(W)}
        IN  /\ submitted = triples
            /\ Cardinality(submitted) = Len(W)
            /\ \A j \in 1..Len(W) :
                   W[j].page_batch = ex.lang_batches[W[j].lang][W[j].batch_idx + 1]
            /\ (ex.n_fr = 40 /\ ex.n_de = 0 /\ ex.batch_size = 20) =>
                   /\ Len(W) = 32
                   /\ \A m \in Metrics :
                          Cardinality({j \in 1..Len(W) : W[j].metric = m}) = 2

\* the plan for 40 pages of one language with batch size 20
C18_Witness ==
    /\ ex.pc = "planned"
    /\ ex.n_fr = 40 /\ ex.n_de = 0 /\ ex.batch_size = 20
    /\ Len(ex.work_items) = 32

\* C19: the worker pool is sized from the number of work items |W| (one per
\* metric, language and batch): min(3 * W_base, 48) when |W| > 100,
\* min(2 * W_base, 32) when |W| > 50, W_base otherwise.
C19_PoolSizedFromWorkItems ==
    ex.pc = "planned" =>
        ex.dynamic_workers =
            (IF Len(ex.work_items) > 100 THEN Min2(3 * ex.max_workers, 48)
             ELSE IF Len(ex.work_items) > 50 THEN Min2(2 * ex.max_workers, 32)
             ELSE ex.max_workers)

\* C20: for every batch size B >= 1 the batches of a language group are
\* consecutive pieces of it in input order: at most B pages each, exactly B
\* in every batch but the last, none empty, and their concatenation is the
\* group; 130 pages with B = 20 give 6 batches of 20 and one of 10.
C20_BatchesPartitionGroup ==
    ex.pc = "planned" =>
        /\ DOMAIN ex.lang_batches = PlanLanguages
        /\ \A l \in PlanLanguages :
               LET batches == ex.lang_batches[l]
                   group == SelectSeq(ex.page_infos, LAMBDA p : p.language = l)
               IN  /\ \A i \in 1..Len(batches) :
                          /\ Len(batches[i]) >= 1
                          /\ Len(batches[i]) <= ex.batch_size
                          /\ i < Len(batches) => Len(batches[i]) = ex.batch_size
                          /\ \A k \in 1..Len(batches[i]) :
                                 batches[i][k] = group[(i - 1) * ex.batch_size + k]
                   /\ Len(group) =
                          (IF batches = <<>> THEN 0
                           ELSE (Len(batches) - 1) * ex.batch_size
                                + Len(batches[Len(batches)]))
        /\ (ex.n_fr = 130 /\ ex.batch_size = 20) =>
               /\ Len(ex.lang_batches["fr"]) = 7
               /\ \A i \in 1..6 : Len(ex.lang_batches["fr"][i]) = 20
               /\ Len(ex.lang_batches["fr"][7]) = 10

\* the plan for 130 pages of one language with batch size 20, and a second
\* language with a single short batch
C20_Witness ==
    /\ ex.pc = "planned"
    /\ ex.n_fr = 130 /\ ex.batch_size = 20 /\ ex.n_de = 2
    /\ Len(ex.lang_batches["fr"]) = 7
    /\ Len(ex.lang_batches["de"]) = 1

(***************************************************************************)
(* The retry loops of the collectors: taille_talk.http_get_with_retry,      *)
(* revert_risk.RevisionProcessor.process_single_revision and                *)
(* edit.EditProcessor.fetch_daily_edits_optimized.  One action is one       *)
(* iteration of the loop: a request, the handling of its answer and the     *)
(* sleep that follows it.  Times are hundredths of a second.  The loop is   *)
(* followed for one page; `log` records its requests and sleeps in order.   *)
(***************************************************************************)
MaxChunks == 2         \* most continuation chunks a wiki serves for one page
WindowDays == 3        \* days between start and end, both included
ChunkRevisions == 11   \* revisions in a served chunk, all of the same day

TRANSIENT_CODES == {429, 500, 502, 503, 504, 403}
EDIT_MAX_RETRIES == 2
REVERT_MAX_RETRIES == 2
RATE_LIMIT_DELAY == 5
SPIKE_REF == 22

RetryLoops == {"http_get_with_retry", "process_single_revision",
               "fetch_daily_edits_optimized"}

\* what a request can end in: a status code, or no answer within the timeout
Status(c) == [timeout |-> FALSE, status |-> c, more |-> FALSE, prob |-> 0]
TimedOut == [timeout |-> TRUE, status |-> 0, more |-> FALSE, prob |-> 0]
RetryStatuses == {200, 404} \cup TRANSIENT_CODES
Probabilities == {40, 80}

Responses(loop) ==
    {Status(c) : c \in RetryStatuses} \cup {TimedOut}
    \cup (IF loop = "process_single_revision"
          THEN {[Status(200) EXCEPT !.prob = p] : p \in Probabilities}
          ELSE IF loop = "fetch_daily_edits_optimized"
          THEN {[Status(200) EXCEPT !.more = TRUE]}
          ELSE {})

Requested(r, c) == [ev |-> "request", resp |-> r, cont |-> c, secs |-> 0]
Slept(d) == [ev |-> "sleep", resp |-> TimedOut, cont |-> 0, secs |-> d]

NoScore == [k |-> "none", v |-> 0]

\* revert_risk.py:34-39
RevisionResult(p, s) == [probability |-> p, success |-> s]

\* revert_risk.py:163-175  mean probability of the revisions that succeeded
process_page_revisions(results) ==
    LET successful_results == SelectSeq(results, LAMBDA r : r.success)
        n == Len(successful_results)
    IN  IF n = 0 THEN 0
        ELSE SumOver([i \in 1..n |-> successful_results[i].probability], 1..n)
                 \div n

\* edit.py:132-160  chunk c holds ChunkRevisions revisions of day c
group_revisions_by_day(fetched) ==
    [d \in 1..WindowDays |->
        ChunkRevisions * Cardinality({i \in 1..Len(fetched) : fetched[i] = d})]

\* the k-th smallest entry of a list
Kth(s, k) ==
    CHOOSE v \in Range(s) :
        /\ Cardinality({i \in 1..Len(s) : s[i] < v}) < k
        /\ Cardinality({i \in 1..Len(s) : s[i] <= v}) >= k

\* twice statistics.median(s)
TwiceMedian(s) ==
    IF Len(s) % 2 = 1 THEN 2 * Kth(s, (Len(s) + 1) \div 2)
    ELSE Kth(s, Len(s) \div 2) + Kth(s, Len(s) \div 2 + 1)

\* edit.py:162-172, 183-184  min(1.0, spike / SPIKE_REF) in hundredths
spike_normalized(daily_counts) ==
    IF SumOver(daily_counts, DOMAIN daily_counts) = 0 THEN 0
    ELSE LET med2 == TwiceMedian(daily_counts)
             mx == CHOOSE v \in Range(daily_counts) :
                       \A w \in Range(daily_counts) : w <= v
         IN  Min2(100, ((2 * mx - med2) * 100) \div ((med2 + 2) * SPIKE_REF))

RetryInit ==
    /\ \E loop \in RetryLoops :
       \E mt \in (IF loop = "http_get_with_retry" THEN {2, 3, 5}
                  ELSE IF loop = "process_single_revision"
                  THEN {REVERT_MAX_RETRIES + 1}
                  ELSE {EDIT_MAX_RETRIES}) :
       \E sb \in (IF loop = "http_get_with_retry" THEN {50, 100} ELSE {50}) :
       \E earlier \in (IF loop = "process_single_revision"
                       THEN {<<>>, <<RevisionResult(40, TRUE)>>,
                             <<RevisionResult(0, FALSE)>>}
                       ELSE {<<>>}) :
           ex = [pc |-> "running", loop |-> loop, max_tries |-> mt,
                 sleep_base |-> sb, tries |-> 0, delay |-> sb, cont |-> 0,
                 fetched |-> <<>>, earlier |-> earlier, log |-> <<>>,
                 outcome |-> "none", score |-> NoScore]
    /\ sc = IdleSc
    /\ pages = <<>>
    /\ batch_size = DEFAULT_BATCH_SIZE
    /\ env = [p \in RemotePages |-> "ok"]
    /\ metric = "Discussion intensity"
    /\ pc = "idle"
    /\ page_infos = <<>>
    /\ future_map = <<>>
    /\ fstate = <<>>
    /\ fresult = <<>>
    /\ api_calls = {}
    /\ results_accumulator = <<>>
    /\ final_results = <<>>
    /\ metrics = <<>>
    /\ api_result = [kind |-> "none", pages |-> <<>>]

Ended(outcome, lg, score) ==
    [ex EXCEPT !.pc = "done", !.outcome = outcome, !.log = lg, !.score = score]

\* taille_talk.py:98-130  one iteration of the while True loop
HttpGetAttempt ==
    /\ ex.pc = "running" /\ ex.loop = "http_get_with_retry"
    /\ \E r \in Responses(ex.loop) :
        LET tries == ex.tries + 1
            lg == Append(ex.log, Requested(r, ex.cont))
        IN  ex' = IF r.timeout
                  THEN [Ended("raised", lg, NoScore) EXCEPT !.tries = tries]
                  ELSE IF r.status < 400
                  THEN [Ended("returned", lg, NoScore) EXCEPT !.tries = tries]
                  ELSE IF r.status \in TRANSIENT_CODES /\ tries < ex.max_tries
                  THEN [ex EXCEPT !.tries = tries,
                                  !.log = Append(lg, Slept(ex.delay)),
                                  !.delay = ex.delay * 2]
                  ELSE [Ended("raised", lg, NoScore) EXCEPT !.tries = tries]
    /\ UNCHANGED orchVars
    /\ UNCHANGED sc

\* revert_risk.py:49-86  one iteration of for attempt in range(MAX_RETRIES + 1),
\* and at its end the page's score (revert_risk.py:163-175)
ProcessRevisionAttempt ==
    /\ ex.pc = "running" /\ ex.loop = "process_single_revision"
    /\ \E r \in Responses(ex.loop) :
        LET attempt == ex.tries
            lg == Append(ex.log, Requested(r, ex.cont))
            done(outcome, l, res) ==
                [Ended(outcome, l,
                       Num(process_page_revisions(Append(ex.earlier, res))))
                     EXCEPT !.tries = attempt + 1]
        IN  ex' = IF ~r.timeout /\ r.status < 400
                  THEN done("returned",
                            IF attempt = 0
                            THEN Append(lg, Slept(RATE_LIMIT_DELAY)) ELSE lg,
                            RevisionResult(r.prob, TRUE))
                  ELSE IF attempt < REVERT_MAX_RETRIES
                  THEN [ex EXCEPT !.tries = attempt + 1,
                                  !.log = Append(lg, Slept((attempt + 1) * 50))]
                  ELSE done("exhausted", lg, RevisionResult(0, FALSE))
    /\ UNCHANGED orchVars
    /\ UNCHANGED sc

\* edit.py:76-130, 174-184  one iteration of while retries < MAX_RETRIES, and
\* at its end the page's score
FetchEditsAttempt ==
    /\ ex.pc = "running" /\ ex.loop = "fetch_daily_edits_optimized"
    /\ \E r \in Responses(ex.loop) :
        /\ r.more => ex.cont < MaxChunks - 1
        /\ LET lg == Append(ex.log, Requested(r, ex.cont))
               retries == ex.tries + 1
               score(fetched) ==
                   Num(spike_normalized(group_revisions_by_day(fetched)))
               served == Append(ex.fetched, ex.cont + 1)
           IN  ex' = IF r.timeout
                     THEN IF retries >= EDIT_MAX_RETRIES
                          THEN [Ended("exhausted", lg, score(ex.fetched))
                                    EXCEPT !.tries = retries]
                          ELSE [ex EXCEPT !.tries = retries,
                                          !.log = Append(lg, Slept(50 * retries))]
                     ELSE IF r.status # 200
                     THEN IF retries >= EDIT_MAX_RETRIES
                          THEN [Ended("exhausted", lg, score(ex.fetched))
                                    EXCEPT !.tries = retries]
                          ELSE [ex EXCEPT !.tries = retries, !.log = lg]
                     ELSE IF r.more
                     THEN [ex EXCEPT !.tries = 0, !.log = lg,
                                     !.fetched = served, !.cont = ex.cont + 1]
                     ELSE [Ended("returned", lg, score(served))
                               EXCEPT !.fetched = served]
    /\ UNCHANGED orchVars
    /\ UNCHANGED sc

RetryNext == HttpGetAttempt \/ ProcessRevisionAttempt \/ FetchEditsAttempt

RetrySpec == RetryInit /\ [][RetryNext]_vars

(***************************************************************************)
(* Claims about the retry loops.                                            *)
(***************************************************************************)
\* positions of the log where a request was sent
RequestsAt == {i \in 1..Len(ex.log) : ex.log[i].ev = "request"}

\* the request at i repeats an earlier request of the log
IsRetry(i) ==
    \E p \in RequestsAt : p < i /\ ex.log[p].cont = ex.log[i].cont

\* the attempt the request at i repeats
PreviousAttempt(i) ==
    CHOOSE p \in RequestsAt :
        /\ p < i /\ ex.log[p].cont = ex.log[i].cont
        /\ \A q \in RequestsAt : q < i /\ ex.log[q].cont = ex.log[i].cont => q <= p

\* attempts of the request at i made up to i
AttemptsUpTo(i) ==
    Cardinality({p \in RequestsAt : p <= i /\ ex.log[p].cont = ex.log[i].cont})

\* the loop slept just before the request at i
WaitedBefore(i) == i > 1 /\ ex.log[i - 1].ev = "sleep"

\* C21: in every retry loop each retry of a request is preceded by a wait;
\* the first wait is the initial delay of 0.5 to 1 s, each later wait is
\* double the previous one, and a request is attempted at most the caller's
\* maximum number of times, which lies between 2 and 5.
C21_RetriesBackOff ==
    /\ ex.max_tries \in 2..5
    /\ \A i \in RequestsAt :
           /\ AttemptsUpTo(i) <= ex.max_tries
           /\ IsRetry(i) =>
                  /\ WaitedBefore(i)
                  /\ LET p == PreviousAttempt(i)
                     IN  IF IsRetry(p)
                         THEN WaitedBefore(p) =>
                                  ex.log[i - 1].secs = 2 * ex.log[p - 1].secs
                         ELSE ex.log[i - 1].secs \in 50..100

\* the answer at i is one the loops are to retry
Transient(i) ==
    ex.log[i].resp.timeout \/ ex.log[i].resp.status \in TRANSIENT_CODES

\* the request at i was sent again
Retried(i) ==
    \E j \in RequestsAt : j > i /\ ex.log[j].cont = ex.log[i].cont

\* C22: a request that times out or answers 429, 500, 502, 503, 504 or 403
\* is retried while attempts remain; a request that answers with any other
\* error status is not retried.
C22_OnlyTransientRetried ==
    \A i \in RequestsAt :
        /\ (Transient(i) /\ AttemptsUpTo(i) < ex.max_tries /\ ex.pc = "done")
               => Retried(i)
        /\ (~Transient(i) /\ ex.log[i].resp.status >= 400) => ~Retried(i)

\* C23: when the retries for a page are exhausted inside a collector, the
\* page's score for that collector is 0.0, also when part of the page's data
\* had been fetched before the failure.
C23_ExhaustedPageScoresZero ==
    ex.outcome = "exhausted" => ex.score = Num(0)

(***************************************************************************)
(* The window of revisions a date-ranged collector asks a wiki for.  A      *)
(* date YYYY-MM-DD is its day number; a timestamp is a day and the seconds  *)
(* elapsed in it.                                                           *)
(***************************************************************************)
MaxDay == 3            \* start and end are days 1..MaxDay

Timestamp(d, s) == [day |-> d, secs |-> s]
EndOfDay == 23 * 3600 + 59 * 60 + 59
NotAfter(a, b) == a.day < b.day \/ (a.day = b.day /\ a.secs <= b.secs)

\* pipeline.py:320-326  the collectors called with (start, end) that list
\* revisions
DateRangedCollectors ==
    {"Edits spikes", "Discussion intensity", "Anonymity",
     "Edits revert probability"}

\* taille_talk.py:80-88  strptime(dt, "%Y-%m-%d") made UTC, in ISO 8601
to_iso_utc(d) == Timestamp(d, 0)

\* the rvend / rvstart bounds of the query: oldest and newest timestamp asked
query_window(m, start, end) ==
    IF m = "Discussion intensity"
    THEN [oldest |-> to_iso_utc(start), newest |-> to_iso_utc(end)]
    ELSE IF m = "Edits spikes"
    THEN [oldest |-> Timestamp(start, 0), newest |-> Timestamp(end + 1, 0)]
    ELSE [oldest |-> Timestamp(start, 0), newest |-> Timestamp(end, EndOfDay)]

\* the wiki serves the revisions inside the bounds; Edits spikes then keeps
\* those of a day of daily_counts (edit.py:144-149)
counts_revision(m, start, end, ts) ==
    LET w == query_window(m, start, end)
    IN  /\ NotAfter(w.oldest, ts) /\ NotAfter(ts, w.newest)
        /\ m = "Edits spikes" => ts.day \in start..end

WindowInit ==
    /\ metric \in DateRangedCollectors
    /\ \E start \in 1..MaxDay : \E end \in start..MaxDay :
       \E d \in 0..(MaxDay + 1) : \E s \in {0, 1, 12 * 3600, EndOfDay} :
           ex = [pc |-> "asking", start |-> start, end |-> end,
                 revision |-> Timestamp(d, s)]
    /\ sc = IdleSc
    /\ pages = <<>>
    /\ batch_size = DEFAULT_BATCH_SIZE
    /\ env = [p \in RemotePages |-> "ok"]
    /\ pc = "idle"
    /\ page_infos = <<>>
    /\ future_map = <<>>
    /\ fstate = <<>>
    /\ fresult = <<>>
    /\ api_calls = {}
    /\ results_accumulator = <<>>
    /\ final_results = <<>>
    /\ metrics = <<>>
    /\ api_result = [kind |-> "none", pages |-> <<>>]

QueryWindow ==
    /\ ex.pc = "asking"
    /\ ex' = [pc |-> "asked", start |-> ex.start, end |-> ex.end,
              revision |-> ex.revision,
              window |-> query_window(metric, ex.start, ex.end),
              counted |-> counts_revision(metric, ex.start, ex.end, ex.revision)]
    /\ UNCHANGED orchVars
    /\ UNCHANGED sc

WindowNext == QueryWindow

WindowSpec == WindowInit /\ [][WindowNext]_vars

\* C24: every date-ranged collector called with start and end as YYYY-MM-DD
\* covers the window from start T00:00:00Z to end T23:59:59Z: a revision is
\* counted exactly when its timestamp lies in it, so a revision made at any
\* time of the end date is counted.
C24_EndDateInsideWindow ==
    ex.pc = "asked" =>
        (ex.counted <=>
            /\ NotAfter(Timestamp(ex.start, 0), ex.revision)
            /\ NotAfter(ex.revision, Timestamp(ex.end, EndOfDay)))

(***************************************************************************)
(* faux_nez.py  the Sockpuppets collector on one page.  The page's history  *)
(* is the list of the authors of its revisions, oldest first.  The limit of *)
(* 500 revisions, which is also the most revisions one request serves       *)
(* (rvlimit=max), is scaled down to MaxScanned.                             *)
(***************************************************************************)
MaxScanned == 2        \* stands for limit = 500 of get_page_contributors

Authors == {"Sock", "Alice", "MediaWiki default"}
UserLists == {{}, {"Sock"}, {"Sock", "Bob"}}
Letters == [fr |-> {"f", "r"}, de |-> {"d", "e"}]

\* faux_nez.py:71-125  the pagination loop: rvdir=newer serves the oldest
\* revisions first; `from` is the next revision the wiki would serve
RECURSIVE scan_contributors(_, _, _, _)
scan_contributors(history, from, total_revisions_processed, contributors) ==
    IF total_revisions_processed >= MaxScanned \/ from > Len(history)
    THEN contributors
    ELSE LET upto == Min2(from + MaxScanned - 1, Len(history))
             users == {history[i] : i \in from..upto} \ {"MediaWiki default"}
             counted == Cardinality({i \in from..upto :
                                        history[i] # "MediaWiki default"})
         IN  scan_contributors(history, upto + 1,
                               total_revisions_processed + counted,
                               contributors \cup users)

\* faux_nez.py:34-133
get_page_contributors(history) == scan_contributors(history, 1, 0, {})

\* faux_nez.py:134-166
calculate_user_detection_score(history, target_users) ==
    IF target_users = {} THEN 0
    ELSE IF target_users \cap get_page_contributors(history) # {} THEN 100
    ELSE 0

\* faux_nez.py:186-210 called as metric_func(titles, extra_args[0], lang)
\* (pipeline.py:178-179): the language arrives as `users`, a string whose
\* characters are added one by one to the names of the CSV
target_users_of(csv_users, lang) == csv_users \cup Letters[lang]

SockInit ==
    /\ metric = "Sockpuppets"
    /\ ex \in [pc : {"detecting"},
               history : SeqsUpTo(Authors, MaxScanned + 1),
               csv_users : UserLists,
               lang : Langs]
    /\ sc = IdleSc
    /\ pages = <<>>
    /\ batch_size = DEFAULT_BATCH_SIZE
    /\ env = [p \in RemotePages |-> "ok"]
    /\ pc = "idle"
    /\ page_infos = <<>>
    /\ future_map = <<>>
    /\ fstate = <<>>
    /\ fresult = <<>>
    /\ api_calls = {}
    /\ results_accumulator = <<>>
    /\ final_results = <<>>
    /\ metrics = <<>>
    /\ api_result = [kind |-> "none", pages |-> <<>>]

DetectUsers ==
    /\ ex.pc = "detecting"
    /\ ex' = [pc |-> "detected", history |-> ex.history,
              csv_users |-> ex.csv_users, lang |-> ex.lang,
              score |-> calculate_user_detection_score(
                            ex.history, target_users_of(ex.csv_users, ex.lang))]
    /\ UNCHANGED orchVars
    /\ UNCHANGED sc

SockNext == DetectUsers

SockSpec == SockInit /\ [][SockNext]_vars

\* the page's most recent revisions, as many as the limit
LastRevisions ==
    {i \in 1..Len(ex.history) : i > Len(ex.history) - MaxScanned}

\* C25: the Sockpuppets score of a page is 1.0 exactly when a username of
\* the loaded list authored at least one of the page's last 500 revisions
\* (the most recent ones), and 0.0 otherwise.
C25_SockpuppetInLastRevisions ==
    ex.pc = "detected" =>
        ex.score = (IF \E i \in LastRevisions : ex.history[i] \in ex.csv_users
                    THEN 100 ELSE 0)

(***************************************************************************)
(* Claims about the writes of the completion loop.                          *)
(***************************************************************************)
\* the stores results_accumulator[metric][uk] = score made so far
\* (pipeline.py:396-399), as <<work item, title>>
WritesTo(uk) ==
    UNION {{<<i, t>> : t \in {u \in DOMAIN fresult[i] :
                lookup_map_get(page_infos, u, future_map[i].lang) = uk}} :
           i \in {j \in 1..Len(future_map) : fstate[j] = "collected"}}

NoRepeatedKey ==
    Cardinality(DistinctKeys(page_infos)) = Len(page_infos)

\* C26: for an input list whose unique keys are pairwise distinct, every
\* (metric, unique_key) cell of the result accumulator is written exactly
\* once during an analysis, by the single work item whose batch contains
\* that page: never twice, and once when the completion loop has ended.
C26_CellWrittenOnce ==
    (pc \in {"collecting", "built", "scored", "done"} /\ NoRepeatedKey) =>
        \A k \in 1..Len(page_infos) :
            LET uk == page_infos[k].unique_key
                writes == WritesTo(uk)
            IN  /\ Cardinality(writes) <= 1
                /\ Collected => Cardinality(writes) = 1
                /\ uk \in DOMAIN results_accumulator <=> writes # {}
                /\ \A w \in writes :
                       /\ \E b \in 1..Len(future_map[w[1]].page_batch) :
                              future_map[w[1]].page_batch[b].unique_key = uk
                       /\ results_accumulator[uk] = fresult[w[1]][w[2]]

\* an analysis over two wikis and several batches that has ended, one work
\* item having failed
C26_Witness ==
    /\ pc = "done" /\ NoRepeatedKey
    /\ Len(future_map) >= 3
    /\ \E i, j \in 1..Len(future_map) : future_map[i].lang # future_map[j].lang
    /\ \E i \in 1..Len(future_map) : ItemFailed(i)

\* the step hands one finished work item to the completion loop
CollectsOne ==
    /\ pc = "collecting"
    /\ \E i \in 1..Len(future_map) :
           /\ fstate[i] = "finished" /\ fstate'[i] = "collected"
           /\ \A j \in 1..Len(future_map) : j # i => fstate'[j] = fstate[j]

\* the step is the end of a worker thread's call
WorkerEnds ==
    /\ pc = "collecting"
    /\ \E i \in 1..Len(future_map) :
           fstate[i] = "running" /\ fstate'[i] \in {"finished", "hung"}

NoResults == [kind |-> "none", pages |-> <<>>]

\* main.py:76-83
update_task_status(task, status, results, error) ==
    [task EXCEPT !.status = status,
                 !.results = IF results # NoResults THEN results ELSE @,
                 !.error = IF error # None THEN error ELSE @]

\* a work item of the analysis never returns
AnalysisHangs(ps, size, m, e) ==
    LET infos == prepare_pages_with_languages(ps, DEFAULT_LANGUAGE)
        items == WorkItems(infos, LangOrder(infos), size)
    IN  \E i \in 1..Len(items) :
            Collector(m, items[i].lang, TitlesOf(items[i].page_batch), e).kind = "hang"

\* pipeline.py:490-557  what compute_scores_for_api_multilang returns
compute_scores_for_api_multilang(ps, size, m, e) ==
    IF ps # <<>> /\ range_raises(size)
    THEN [kind |-> "error", pages |-> <<>>]
    ELSE Envelope(prepare_pages_with_languages(ps, DEFAULT_LANGUAGE),
                  to_numeric_fillna(RunColumn(ps, size, m, e)))

TaskInit ==
    /\ pages \in SeqsUpTo(InputPool, MaxPages) \ {<<>>}
    /\ env \in Envs
    /\ metric \in Metrics
    /\ ex \in [pc : {"queued"}, status : {"queued"}, results : {NoResults},
               error : {None}, importable : BOOLEAN]
    /\ sc = IdleSc
    /\ batch_size = DEFAULT_BATCH_SIZE
    /\ pc = "idle"
    /\ page_infos = <<>>
    /\ future_map = <<>>
    /\ fstate = <<>>
    /\ fresult = <<>>
    /\ api_calls = {}
    /\ results_accumulator = <<>>
    /\ final_results = <<>>
    /\ metrics = <<>>
    /\ api_result = [kind |-> "none", pages |-> <<>>]

\* main.py:151-176
run_analysis_background ==
    /\ ex.pc = "queued"
    /\ LET running == update_task_status(ex, "running", NoResults, None)
       IN  ex' = IF ~ex.importable
                 THEN [update_task_status(running, "error", NoResults, "ImportError")
                           EXCEPT !.pc = "ended"]
                 ELSE IF AnalysisHangs(pages, batch_size, metric, env)
                 THEN [running EXCEPT !.pc = "blocked"]
                 ELSE [update_task_status(
                           running, "completed",
                           compute_scores_for_api_multilang(
                               pages, batch_size, metric, env), None)
                           EXCEPT !.pc = "ended"]
    /\ UNCHANGED orchVars
    /\ UNCHANGED sc

TaskNext == run_analysis_background

TaskSpec == TaskInit /\ [][TaskNext]_vars

\* C28: a background analysis task ends with status error whenever the
\* pipeline failed to produce scores: a task reaches status completed only if
\* its stored results contain scores for the requested pages.
C28_CompletedTaskHasScores ==
    ex.status = "completed" =>
        /\ ex.results.kind = "ok"
        /\ Len(ex.results.pages) = Len(pages)

(***************************************************************************)
(* pipeline.py:490-557  compute_scores_for_api_multilang called with a      *)
(* batch_size argument of any sign.                                         *)
(***************************************************************************)
BatchInit ==
    /\ pages \in SeqsUpTo(InputPool, MaxPages) \ {<<>>}
    /\ batch_size \in (0 - MaxBatch)..1
    /\ metric \in Metrics
    /\ env = [p \in RemotePages |-> "ok"]
    /\ ex = [pc |-> "called"]
    /\ sc = IdleSc
    /\ pc = "idle"
    /\ page_infos = <<>>
    /\ future_map = <<>>
    /\ fstate = <<>>
    /\ fresult = <<>>
    /\ api_calls = {}
    /\ results_accumulator = <<>>
    /\ final_results = <<>>
    /\ metrics = <<>>
    /\ api_result = [kind |-> "none", pages |-> <<>>]

AnalyseWithBatchSize ==
    /\ ex.pc = "called"
    /\ LET infos == prepare_pages_with_languages(pages, DEFAULT_LANGUAGE)
       IN  ex' = [pc |-> "ended",
                  dispatched |->
                      IF range_raises(batch_size) THEN 0
                      ELSE Len(WorkItems(infos, LangOrder(infos), batch_size)),
                  result |-> compute_scores_for_api_multilang(
                                 pages, batch_size, metric, env)]
    /\ UNCHANGED orchVars
    /\ UNCHANGED sc

BatchNext == AnalyseWithBatchSize

BatchSpec == BatchInit /\ [][BatchNext]_vars

\* C29: an analysis called with a batch size <= 0 never returns a score
\* bundle: it ends in the error envelope, never in a result whose pages have
\* all metrics 0.0 because no work item was dispatched for them.
C29_BadBatchSizeIsAnError ==
    (ex.pc = "ended" /\ batch_size <= 0) => ex.result.kind = "error"

(***************************************************************************)
(* taille_talk.py:136-183  fetch_revisions, the pagination loop over the    *)
(* history of a talk page.  A continuation token is a positive number, 0 is *)
(* no token; a chunk is the list of the revisions one response serves.      *)
(* One action is one iteration: the request (with its retries, inside       *)
(* http_get_with_retry) and the handling of the response.                   *)
(***************************************************************************)
MaxRequests == 3       \* most requests the wiki answers with a continuation
MaxToken == 2          \* continuation tokens are 1..MaxToken

Chunks == {<<"r1">>, <<"r2", "r3">>}

\* what http_get_with_retry hands back: a response, or an exception
FetchResponses(last) ==
    {[raised |-> FALSE, has_revisions |-> h, chunk |-> c, continue |-> t] :
        h \in BOOLEAN, c \in Chunks, t \in (IF last THEN {0} ELSE 0..MaxToken)}
    \cup {[raised |-> TRUE, has_revisions |-> FALSE, chunk |-> <<>>, continue |-> 0]}

\* a loop that asks for the first page of the result every time
fetch_iteration_without_token(st, resp) ==
    LET lg == Append(st.log, [sent |-> st.cont, resp |-> resp])
    IN  IF resp.raised THEN [st EXCEPT !.pc = "raised", !.log = lg]
        ELSE IF ~resp.has_revisions THEN [st EXCEPT !.pc = "returned", !.log = lg]
        ELSE IF resp.continue = 0
        THEN [st EXCEPT !.pc = "returned", !.log = lg,
                        !.revisions = st.revisions \o resp.chunk]
        ELSE [st EXCEPT !.log = lg, !.revisions = st.revisions \o resp.chunk]

\* taille_talk.py:165-182  one iteration of while True
fetch_iteration(st, resp) ==
    LET lg == Append(st.log, [sent |-> st.cont, resp |-> resp])
    IN  IF resp.raised THEN [st EXCEPT !.pc = "raised", !.log = lg]
        ELSE IF ~resp.has_revisions THEN [st EXCEPT !.pc = "returned", !.log = lg]
        ELSE IF resp.continue = 0
        THEN [st EXCEPT !.pc = "returned", !.log = lg,
                        !.revisions = st.revisions \o resp.chunk]
        ELSE [st EXCEPT !.log = lg, !.cont = resp.continue,
                        !.revisions = st.revisions \o resp.chunk]

FetchInit ==
    /\ metric = "Discussion intensity"
    /\ ex = [pc |-> "fetching", cont |-> 0, revisions |-> <<>>, log |-> <<>>]
    /\ sc = IdleSc
    /\ pages = <<>>
    /\ batch_size = DEFAULT_BATCH_SIZE
    /\ env = [p \in RemotePages |-> "ok"]
    /\ pc = "idle"
    /\ page_infos = <<>>
    /\ future_map = <<>>
    /\ fstate = <<>>
    /\ fresult = <<>>
    /\ api_calls = {}
    /\ results_accumulator = <<>>
    /\ final_results = <<>>
    /\ metrics = <<>>
    /\ api_result = [kind |-> "none", pages |-> <<>>]

FetchRevisions ==
    /\ ex.pc = "fetching"
    /\ \E resp \in FetchResponses(Len(ex.log) + 1 >= MaxRequests) :
           ex' = fetch_iteration(ex, resp)
    /\ UNCHANGED orchVars
    /\ UNCHANGED sc

FetchNext == FetchRevisions

FetchSpec == FetchInit /\ [][FetchNext]_vars

\* the chunks of the responses 1..n that served revisions, in the order served
RECURSIVE ServedChunks(_)
ServedChunks(n) ==
    IF n = 0 THEN <<>>
    ELSE ServedChunks(n - 1) \o
             (IF ex.log[n].resp.raised \/ ~ex.log[n].resp.has_revisions
              THEN <<>> ELSE ex.log[n].resp.chunk)

\* the response ends the pagination
LastPage(resp) == ~resp.has_revisions \/ resp.continue = 0

\* C30: fetch_revisions requests the pages of a result one after another,
\* each request carrying the rvcontinue token of the previous response; it
\* appends every served chunk exactly once in the order served, and stops at
\* the first response that has no continuation token or no revisions.
C30_PaginationFollowsTokens ==
    /\ ex.log # <<>> => ex.log[1].sent = 0
    /\ \A i \in 2..Len(ex.log) :
           /\ ex.log[i].sent = ex.log[i - 1].resp.continue
           /\ ~ex.log[i - 1].resp.raised /\ ~LastPage(ex.log[i - 1].resp)
    /\ ex.revisions = ServedChunks(Len(ex.log))
    /\ ex.pc = "returned" <=>
           (ex.log # <<>> /\ ~ex.log[Len(ex.log)].resp.raised
                /\ LastPage(ex.log[Len(ex.log)].resp))

\* a history returned after three requests that followed two different tokens
C30_Witness ==
    /\ ex.pc = "returned"
    /\ Len(ex.log) = 3
    /\ ex.log[2].sent # ex.log[3].sent
    /\ Len(ex.revisions) >= 4

====
